---------------------------- MODULE Spec2Model ----------------------------
(***************************************************************************)
(* A model of sgwtool (src/sgwtool/cli.py): the FRR and nftables           *)
(* configuration tools, their text rendering and line-oriented parsing,    *)
(* the table renderer, the root and missing-file guards and the external   *)
(* restart command.                                                        *)
(*                                                                         *)
(* A Python str is modelled as a sequence of one-character strings, so     *)
(* that join, splitlines, strip, startswith, split, ljust and the `in`     *)
(* operator are computed character by character as Python computes them.   *)
(***************************************************************************)
EXTENDS Integers, Sequences, FiniteSets, TLC

VARIABLES
    dirExists,   \* tool -> the parent directory of its config path exists
    fileExists,  \* tool -> its config file exists
    fileText,    \* tool -> the content of its config file (<< >> when absent)
    lastSet,     \* tool -> the arguments of the most recent set run as root
    last,        \* what the most recent invocation of main() did
    table,       \* the headers and rows handed to the table renderer
    printed      \* the lines the table renderer printed

vars == <<dirExists, fileExists, fileText, lastSet, last, table, printed>>

fsvars == <<dirExists, fileExists, fileText>>

-----------------------------------------------------------------------------
(* Bounds of the model.                                                    *)

\* at most this many --sector-subnet-addr flags on one frr set
MaxSectors == 2
\* at most this many lines in a hand-written configuration file
MaxLines == 3
\* at most this many characters in a table cell
MaxCellLen == 2
\* at most this many cells (headers included) in a table
MaxCells == 6

-----------------------------------------------------------------------------
(* Python str operations.                                                  *)

\* the characters str.strip() and str.split() treat as whitespace
Whitespace == {" ", "\t", "\n", "\r"}

\* the characters str.splitlines() treats as line boundaries
LineBreaks == {"\n", "\r"}

Max(a, b) == IF a >= b THEN a ELSE b

Repeat(c, n) == IF n <= 0 THEN << >> ELSE [i \in 1..n |-> c]

RECURSIVE JoinWith(_, _)
\* sep.join(parts)
JoinWith(sep, parts) ==
    IF parts = << >> THEN << >>
    ELSE IF Len(parts) = 1 THEN parts[1]
    ELSE parts[1] \o sep \o JoinWith(sep, Tail(parts))

\* s.startswith(p)
StartsWith(s, p) == Len(s) >= Len(p) /\ SubSeq(s, 1, Len(p)) = p

\* sub in s
Contains(s, sub) ==
    \E i \in 1..(Len(s) - Len(sub) + 1) : SubSeq(s, i, i + Len(sub) - 1) = sub

\* the least element of a non-empty set of numbers
Least(S) == CHOOSE i \in S : \A j \in S : i <= j

\* the greatest element of a non-empty set of numbers
Greatest(S) == CHOOSE i \in S : \A j \in S : i >= j

\* s.strip(): s without its leading and trailing whitespace
Strip(s) ==
    LET solid == {i \in 1..Len(s) : s[i] \notin Whitespace}
    IN  IF solid = {} THEN << >> ELSE SubSeq(s, Least(solid), Greatest(solid))

RECURSIVE Split(_)
\* s.split(): the maximal runs of non-whitespace characters
Split(s) ==
    LET solid == {i \in 1..Len(s) : s[i] \notin Whitespace}
    IN  IF solid = {} THEN << >>
        ELSE LET from == Least(solid)
                 gaps == {i \in from..Len(s) : s[i] \in Whitespace}
                 upto == IF gaps = {} THEN Len(s) ELSE Least(gaps) - 1
             IN  <<SubSeq(s, from, upto)>> \o Split(SubSeq(s, upto + 1, Len(s)))

RECURSIVE SplitLines(_)
\* text.splitlines(): "\r\n" is one line boundary, and there is no empty
\* last line after a final boundary
SplitLines(text) ==
    LET breaks == {i \in 1..Len(text) : text[i] \in LineBreaks}
    IN  IF text = << >> THEN << >>
        ELSE IF breaks = {} THEN <<text>>
        ELSE LET at == Least(breaks)
                 next == IF text[at] = "\r" /\ at < Len(text) /\ text[at + 1] = "\n"
                         THEN at + 2 ELSE at + 1
             IN  <<SubSeq(text, 1, at - 1)>> \o SplitLines(SubSeq(text, next, Len(text)))

\* cell.ljust(w): padded with spaces on the right, never cut
Ljust(cell, w) == cell \o Repeat(" ", w - Len(cell))

-----------------------------------------------------------------------------
(* The table renderer.                                                     *)

Gutter == <<" "," ">>

\* __format_row__
FormatRow(col_widths, row) ==
    JoinWith(Gutter, [i \in 1..Len(row) |-> Ljust(row[i], col_widths[i])])

\* one pass of the inner loop of __print_table__ over the cells of a row
WidenBy(col_widths, row) ==
    [i \in 1..Len(col_widths) |->
        IF i <= Len(row) THEN Max(col_widths[i], Len(row[i])) ELSE col_widths[i]]

RECURSIVE WidenAll(_, _)
WidenAll(col_widths, rows) ==
    IF rows = << >> THEN col_widths
    ELSE WidenAll(WidenBy(col_widths, Head(rows)), Tail(rows))

\* a renderer that sizes the columns by the headers alone
ColWidthsHeadersOnly(headers, rows) == [i \in 1..Len(headers) |-> Len(headers[i])]

\* col_widths of __print_table__
ColWidths(headers, rows) ==
    WidenAll([i \in 1..Len(headers) |-> Len(headers[i])], rows)

\* the separator row of __print_table__
Separator(col_widths) == [i \in 1..Len(col_widths) |-> Repeat("-", col_widths[i])]

\* __print_table__: the lines printed, in order
PrintTable(headers, rows) ==
    LET col_widths == ColWidths(headers, rows)
    IN  <<FormatRow(col_widths, headers),
          FormatRow(col_widths, Separator(col_widths))>>
        \o [r \in 1..Len(rows) |-> FormatRow(col_widths, rows[r])]

-----------------------------------------------------------------------------
(* The two tools, their configuration paths and the process environment.   *)

Tools == {"frr", "nftables"}

\* main: FRR(config=Path("/etc/frr/frr.conf")), NFTables(config=Path("/etc/nftables.conf"))
Config(tool) == IF tool = "frr" THEN <<"/","e","t","c","/","f","r","r","/","f","r","r",".","c","o","n","f">> ELSE <<"/","e","t","c","/","n","f","t","a","b","l","e","s",".","c","o","n","f">>

\* the effective user id of root
Root == 0

\* the effective user ids an invocation may run under
Euids == {0, 1000}

\* the return codes of the external command
ReturnCodes == {0, 1}

NL == <<"\n">>

-----------------------------------------------------------------------------
(* One invocation of main(): the filesystem it sees, what it has done so   *)
(* far (events, in order), and whether and how it has ended.               *)

Event(kind, text) == [kind |-> kind, text |-> text]

StartRun ==
    [dir |-> dirExists, exists |-> fileExists, text |-> fileText,
     events |-> << >>, halted |-> FALSE, exit |-> 0, exc |-> "", rows |-> << >>]

Emit(st, kind, text) == [st EXCEPT !.events = Append(@, Event(kind, text))]

\* print(...)
PrintLine(st, text) == IF st.halted THEN st ELSE Emit(st, "stdout", text)

\* An exception nothing catches: the interpreter prints the traceback and
\* the process ends with exit code 1.
Raise(st, exc) ==
    IF st.halted THEN st
    ELSE [Emit(st, "traceback", << >>) EXCEPT !.halted = TRUE, !.exit = 1, !.exc = exc]

\* __die__
Die(st, msg) ==
    IF st.halted THEN st
    ELSE [Emit(st, "stderr", <<"E","R","R","O","R",":"," ">> \o msg) EXCEPT !.halted = TRUE, !.exit = 1]

\* a constructor that does not look at the effective user id
EnsureRootNoCheck(st, euid) == st

\* __ensure_root__
EnsureRoot(st, euid) ==
    IF st.halted THEN st
    ELSE IF euid # Root THEN Die(st, <<"T","h","i","s"," ","c","o","m","m","a","n","d"," ","m","u","s","t"," ","b","e"," ","r","u","n"," ","a","s"," ","r","o","o","t">>)
    ELSE st

\* SectorGatewayTool.__init__
ToolInit(st, euid) == EnsureRoot(st, euid)

\* config.parent.mkdir(parents=True, exist_ok=True)
Mkdir(st, tool) ==
    IF st.halted THEN st
    ELSE [Emit(st, "mkdir", Config(tool)) EXCEPT !.dir[tool] = TRUE]

\* pre-flight checks that make the directory and do not look for the file
PreChecksNoExistsCheck(st, tool) == Mkdir(st, tool)

\* __pre_checks__
PreChecks(st, tool) ==
    LET made == Mkdir(st, tool)
    IN  IF made.halted THEN made
        ELSE IF ~made.exists[tool] THEN Die(made, Config(tool) \o <<" ","d","o","e","s"," ","n","o","t"," ","e","x","i","s","t">>)
        ELSE made

\* config.write_text(text): the whole file is replaced; the parent directory
\* must exist
WriteText(st, tool, text) ==
    IF st.halted THEN st
    ELSE IF ~st.dir[tool] THEN Raise(st, "FileNotFoundError")
    ELSE [Emit(st, "write", Config(tool)) EXCEPT !.exists[tool] = TRUE, !.text[tool] = text]

\* config.read_text()
ReadText(st, tool) ==
    IF st.halted THEN st
    ELSE IF ~st.exists[tool] THEN Raise(st, "FileNotFoundError")
    ELSE Emit(st, "read", Config(tool))

\* a runner without check=True: the return code is not looked at
RunIgnoringFailure(st, cmd, rc) ==
    IF st.halted THEN st ELSE Emit(st, "run", JoinWith(<<" ">>, cmd))

\* __run__: subprocess.run(cmd, check=True), rc the command's return code
Run(st, cmd, rc) ==
    IF st.halted THEN st
    ELSE LET ran == Emit(st, "run", JoinWith(<<" ">>, cmd))
         IN  IF rc # 0 THEN Die(ran, <<"C","o","m","m","a","n","d"," ","f","a","i","l","e","d",":"," ">> \o JoinWith(<<" ">>, cmd))
             ELSE ran

\* __print_table__ as called by get: one line printed per table line
PrintTableTo(st, headers, rows) ==
    IF st.halted THEN st
    ELSE LET lines == PrintTable(headers, rows)
         IN  [st EXCEPT !.rows = rows,
                        !.events = @ \o [i \in 1..Len(lines) |-> Event("stdout", lines[i])]]

\* main returns: the process ends with exit code 0
Return(st) == IF st.halted THEN st ELSE [st EXCEPT !.halted = TRUE]

-----------------------------------------------------------------------------
(* FRR.                                                                    *)

\* FrrSetArgs
FrrSetArgs(sector_addresses, backplane_assigned_addr, backplane_gw_ip) ==
    [sector_addresses |-> sector_addresses,
     backplane_assigned_addr |-> backplane_assigned_addr,
     backplane_gw_ip |-> backplane_gw_ip]

\* a template that lacks the interface eth1 line
FrrLinesNoBackplaneHeader(args) ==
    <<<<"f","r","r"," ","d","e","f","a","u","l","t","s"," ","t","r","a","d","i","t","i","o","n","a","l">>,
      <<"l","o","g"," ","s","y","s","l","o","g"," ","w","a","r","n","i","n","g">>,
      <<"i","p"," ","f","o","r","w","a","r","d","i","n","g">>,
      <<"!">>,
      <<"i","n","t","e","r","f","a","c","e"," ","e","t","h","0">>>>
    \o [i \in 1..Len(args.sector_addresses) |-> <<" ","i","p"," ","a","d","d","r","e","s","s"," ">> \o args.sector_addresses[i]]
    \o <<<<" ","n","o"," ","s","h","u","t","d","o","w","n">>,
         <<"!">>,
         <<" ","i","p"," ","a","d","d","r","e","s","s"," ">> \o args.backplane_assigned_addr,
         <<" ","n","o"," ","s","h","u","t","d","o","w","n">>,
         <<"!">>,
         <<"i","p"," ","r","o","u","t","e"," ","0",".","0",".","0",".","0","/","0"," ">> \o args.backplane_gw_ip,
         <<"!">>,
         <<"e","n","d">>,
         << >>>>

\* the lines of FRR.set
FrrLines(args) ==
    <<<<"f","r","r"," ","d","e","f","a","u","l","t","s"," ","t","r","a","d","i","t","i","o","n","a","l">>,
      <<"l","o","g"," ","s","y","s","l","o","g"," ","w","a","r","n","i","n","g">>,
      <<"i","p"," ","f","o","r","w","a","r","d","i","n","g">>,
      <<"!">>,
      <<"i","n","t","e","r","f","a","c","e"," ","e","t","h","0">>>>
    \o [i \in 1..Len(args.sector_addresses) |-> <<" ","i","p"," ","a","d","d","r","e","s","s"," ">> \o args.sector_addresses[i]]
    \o <<<<" ","n","o"," ","s","h","u","t","d","o","w","n">>,
         <<"!">>,
         <<"i","n","t","e","r","f","a","c","e"," ","e","t","h","1">>,
         <<" ","i","p"," ","a","d","d","r","e","s","s"," ">> \o args.backplane_assigned_addr,
         <<" ","n","o"," ","s","h","u","t","d","o","w","n">>,
         <<"!">>,
         <<"i","p"," ","r","o","u","t","e"," ","0",".","0",".","0",".","0","/","0"," ">> \o args.backplane_gw_ip,
         <<"!">>,
         <<"e","n","d">>,
         << >>>>

\* the text FRR.set writes
FrrRender(args) == JoinWith(NL, FrrLines(args))

\* FRR.set
FRR_set(st, args) ==
    PrintLine(WriteText(st, "frr", FrrRender(args)),
           <<"W","r","o","t","e"," ","F","R","R"," ","c","o","n","f","i","g","u","r","a","t","i","o","n"," ","t","o"," ">> \o Config("frr"))

\* the locals of FRR.get before its loop
FrrScanStart ==
    [sector_addresses |-> << >>, backplane_addr |-> << >>,
     backplane_gateway |-> << >>, ip_type |-> "", raised |-> FALSE]

\* one pass of the loop of FRR.get; raised: config_line.split()[2] is out
\* of range (IndexError), which ends the loop
FrrScanLine(ps, line) ==
    IF ps.raised THEN ps
    ELSE
    LET config_line == Strip(line)
        ip_type == IF StartsWith(config_line, <<"i","n","t","e","r","f","a","c","e">>)
                   THEN (IF Contains(config_line, <<"e","t","h","0">>) THEN "sector" ELSE "backplane")
                   ELSE ps.ip_type
        words == Split(config_line)
    IN  IF StartsWith(config_line, <<"i","p"," ","a","d","d","r","e","s","s">>)
        THEN IF Len(words) < 3
             THEN [ps EXCEPT !.ip_type = ip_type, !.raised = TRUE]
             ELSE IF ip_type = "sector"
             THEN [ps EXCEPT !.ip_type = ip_type,
                             !.sector_addresses = Append(@, words[3])]
             ELSE [ps EXCEPT !.ip_type = "", !.backplane_addr = words[3]]
        ELSE IF StartsWith(config_line, <<"i","p"," ","r","o","u","t","e"," ","0",".","0",".","0",".","0","/","0">>)
        THEN [ps EXCEPT !.ip_type = ip_type, !.backplane_gateway = words[Len(words)]]
        ELSE [ps EXCEPT !.ip_type = ip_type]

RECURSIVE FrrScan(_, _)
FrrScan(ps, lines) ==
    IF lines = << >> THEN ps ELSE FrrScan(FrrScanLine(ps, Head(lines)), Tail(lines))

\* the loop of FRR.get over config.read_text().splitlines()
FrrParse(text) == FrrScan(FrrScanStart, SplitLines(text))

\* rows of FRR.get
FrrRows(ps) ==
    <<<<<<"S","e","c","t","o","r"," ","G","a","t","e","w","a","y","s">>, JoinWith(<<","," ">>, ps.sector_addresses)>>,
      <<<<"B","a","c","k","p","l","a","n","e"," ","A","d","d","r","e","s","s">>, ps.backplane_addr>>,
      <<<<"B","a","c","k","p","l","a","n","e"," ","G","a","t","e","w","a","y">>, ps.backplane_gateway>>,
      <<<<"C","o","n","f","i","g"," ","P","a","t","h">>, Config("frr")>>>>

TableHeaders == <<<<"F","i","e","l","d">>, <<"V","a","l","u","e">>>>

\* FRR.get
FRR_get(st) ==
    LET checked == PreChecks(st, "frr")
        read == ReadText(checked, "frr")
        ps == FrrParse(read.text["frr"])
    IN  IF read.halted THEN read
        ELSE IF ps.raised THEN Raise(read, "IndexError")
        ELSE PrintTableTo(read, TableHeaders, FrrRows(ps))

\* FRR.restart
FRR_restart(st, rc) ==
    PrintLine(Run(PreChecks(st, "frr"), <<<<"s","y","s","t","e","m","c","t","l">>, <<"r","e","s","t","a","r","t">>, <<"f","r","r">>>>, rc),
           <<"F","R","R"," ","r","e","s","t","a","r","t","e","d"," ","s","u","c","c","e","s","s","f","u","l","l","y">>)

-----------------------------------------------------------------------------
(* NFTables.                                                               *)

\* NFTablesSetArgs
NFTablesSetArgs(primary_sector_ip, backplane_network) ==
    [primary_sector_ip |-> primary_sector_ip, backplane_network |-> backplane_network]

\* the lines of NFTables.set
NftLines(args) ==
    <<<<"t","a","b","l","e"," ","i","p"," ","n","a","t"," ","{">>,
      <<" "," ","c","h","a","i","n"," ","p","r","e","r","o","u","t","i","n","g"," ","{">>,
      <<" "," "," "," ","t","y","p","e"," ","n","a","t"," ","h","o","o","k"," ","p","r","e","r","o","u","t","i","n","g"," ","p","r","i","o","r","i","t","y"," ","-","1","0","0",";">>,
      <<" "," "," "," ","i","i","f"," ","\"","e","t","h","1","\""," ","i","p"," ","d","a","d","d","r"," ">> \o args.backplane_network
          \o <<" ","d","n","a","t"," ","t","o"," ">> \o args.primary_sector_ip,
      <<" "," "," "," ","i","i","f"," ","\"","e","t","h","0","\""," ","i","p"," ","d","a","d","d","r"," ">> \o args.backplane_network \o <<" ","d","r","o","p">>,
      <<" "," ","}">>,
      << >>,
      <<" "," ","c","h","a","i","n"," ","p","o","s","t","r","o","u","t","i","n","g"," ","{">>,
      <<" "," "," "," ","t","y","p","e"," ","n","a","t"," ","h","o","o","k"," ","p","o","s","t","r","o","u","t","i","n","g"," ","p","r","i","o","r","i","t","y"," ","1","0","0",";">>,
      <<" "," "," "," ","o","i","f"," ","\"","e","t","h","1","\""," ","m","a","s","q","u","e","r","a","d","e">>,
      <<" "," ","}">>,
      <<"}">>,
      << >>>>

\* the text NFTables.set writes
NftRender(args) == JoinWith(NL, NftLines(args))

\* NFTables.set
NFTables_set(st, args) ==
    PrintLine(WriteText(st, "nftables", NftRender(args)),
           <<"W","r","o","t","e"," ","n","f","t","a","b","l","e","s"," ","c","o","n","f","i","g","u","r","a","t","i","o","n"," ","t","o"," ">> \o Config("nftables"))

\* the locals of NFTables.get before its loop
NftScanStart == [prerouting |-> << >>, postrouting |-> << >>]

\* one pass of the loop of NFTables.get
NftScanLine(ps, line) ==
    LET config_line == Strip(line)
    IN  IF StartsWith(config_line, <<"i","i","f">>) THEN [ps EXCEPT !.prerouting = config_line]
        ELSE IF StartsWith(config_line, <<"o","i","f">>) THEN [ps EXCEPT !.postrouting = config_line]
        ELSE ps

RECURSIVE NftScan(_, _)
NftScan(ps, lines) ==
    IF lines = << >> THEN ps ELSE NftScan(NftScanLine(ps, Head(lines)), Tail(lines))

\* the loop of NFTables.get over config.read_text().splitlines()
NftParse(text) == NftScan(NftScanStart, SplitLines(text))

\* rows of NFTables.get
NftRows(ps) ==
    <<<<<<"P","r","e","r","o","u","t","i","n","g"," ","R","u","l","e">>, ps.prerouting>>,
      <<<<"P","o","s","t","r","o","u","t","i","n","g"," ","R","u","l","e">>, ps.postrouting>>,
      <<<<"C","o","n","f","i","g"," ","P","a","t","h">>, Config("nftables")>>>>

\* NFTables.get
NFTables_get(st) ==
    LET checked == PreChecks(st, "nftables")
        read == ReadText(checked, "nftables")
    IN  IF read.halted THEN read
        ELSE PrintTableTo(read, TableHeaders, NftRows(NftParse(read.text["nftables"])))

\* NFTables.restart
NFTables_restart(st, rc) ==
    PrintLine(Run(PreChecks(st, "nftables"), <<<<"s","y","s","t","e","m","c","t","l">>, <<"r","e","s","t","a","r","t">>, <<"n","f","t","a","b","l","e","s">>>>, rc),
           <<"n","f","t","a","b","l","e","s"," ","r","e","s","t","a","r","t","e","d"," ","s","u","c","c","e","s","s","f","u","l","l","y">>)

-----------------------------------------------------------------------------
(* The inputs of the model.                                                *)

SeqsUpTo(S, lo, hi) == UNION {[1..n -> S] : n \in lo..hi}

\* values of --sector-subnet-addr
SectorAddrs == {<<"1","0",".","1",".","1",".","1","/","2","4">>, <<"1","0",".","1",".","2",".","1","/","2","4">>}

\* values of --backplane-assigned-addr and --backplane-gw-ip: an address
\* with its gateway, and whitespace-free tokens that are words of the format
BackplanePairs ==
    {<<<<"1","9","2",".","1","6","8",".","1",".","1","0","0","/","2","4">>, <<"1","9","2",".","1","6","8",".","1",".","1">>>>, <<<<"e","t","h","0">>, <<"i","n","t","e","r","f","a","c","e">>>>}

\* the arguments of frr set: --sector-subnet-addr is required, so at least one
FrrArgs ==
    {FrrSetArgs(s, b[1], b[2]) : s \in SeqsUpTo(SectorAddrs, 1, MaxSectors),
                                 b \in BackplanePairs}

\* values of --primary-sector-ip
PrimaryIps == {<<"1","0",".","1",".","1",".","1">>, <<"1","9","2",".","1","6","8",".","1",".","0">>}

\* values of --backplane-network
BackplaneNetworks == {<<"1","9","2",".","1","6","8",".","1",".","0","/","2","4">>, <<"1","0",".","0",".","0",".","0","/","8">>}

\* the arguments of nftables set
NftArgs ==
    {NFTablesSetArgs(p, n) : p \in PrimaryIps, n \in BackplaneNetworks}

\* a configuration file some other program or hand left behind
OldText == <<"h","o","s","t","n","a","m","e"," ","t","e","s","t","h","o","s","t","\n">>

\* lines a hand-edited frr.conf may hold
FrrVocabulary ==
    {<<"i","n","t","e","r","f","a","c","e"," ","e","t","h","0">>, <<"i","n","t","e","r","f","a","c","e"," ","e","t","h","1">>, <<"i","n","t","e","r","f","a","c","e"," ","l","o">>,
     <<" ","i","p"," ","a","d","d","r","e","s","s"," ","1","0",".","1",".","1",".","1","/","2","4">>, <<" ","i","p"," ","a","d","d","r","e","s","s"," ","1","0",".","1",".","2",".","1","/","2","4">>, <<" ","i","p"," ","a","d","d","r","e","s","s">>,
     <<"i","p"," ","r","o","u","t","e"," ","0",".","0",".","0",".","0","/","0"," ","1","9","2",".","1","6","8",".","1",".","1">>, <<"i","p"," ","r","o","u","t","e"," ","0",".","0",".","0",".","0","/","0">>, <<"!">>}

\* lines a hand-edited nftables.conf may hold
NftVocabulary ==
    {<<" "," "," "," ","i","i","f"," ","\"","e","t","h","1","\""," ","i","p"," ","d","a","d","d","r"," ","1","9","2",".","1","6","8",".","1",".","0","/","2","4"," ","d","n","a","t"," ","t","o"," ","1","0",".","1",".","1",".","1">>,
     <<" "," "," "," ","o","i","f"," ","\"","e","t","h","1","\""," ","m","a","s","q","u","e","r","a","d","e">>, <<"i","i","f">>, <<" "," ","}">>}

Vocabulary(tool) == IF tool = "frr" THEN FrrVocabulary ELSE NftVocabulary

\* the text of a file of these lines, each ended by a line break
TextOf(lines) == JoinWith(NL, Append(lines, << >>))

\* table cells: only their lengths matter to the alignment
Cells == {Repeat("a", n) : n \in 0..MaxCellLen}

\* headers and rows of equal length, MaxCells cells at most
Tables ==
    UNION {[headers : [1..c -> Cells], rows : [1..r -> [1..c -> Cells]]] :
             <<c, r>> \in {x \in (1..MaxCells) \X (0..MaxCells) : x[1] * (x[2] + 1) <= MaxCells}}

-----------------------------------------------------------------------------
(* The state machine: one action per command of the tool, each a whole     *)
(* invocation of main() from its start to the exit of the process.         *)

NoArgs ==
    [frr |-> [has |-> FALSE, args |-> FrrSetArgs(<< >>, << >>, << >>)],
     nftables |-> [has |-> FALSE, args |-> NFTablesSetArgs(<< >>, << >>)]]

NoRun ==
    [tool |-> "", action |-> "", euid |-> 0, rc |-> 0,
     events |-> << >>, exit |-> 0, exc |-> "", rows |-> << >>]

NoTable == [headers |-> << >>, rows |-> << >>]

NotPrinted == [done |-> FALSE, lines |-> << >>]

\* main: both tools are constructed before the arguments are parsed
Construct(st, euid) == ToolInit(ToolInit(st, euid), euid)

\* the end of the invocation: the filesystem it leaves and what it did
Commit(st, tool, action, euid, rc) ==
    /\ dirExists' = st.dir
    /\ fileExists' = st.exists
    /\ fileText' = st.text
    /\ last' = [tool |-> tool, action |-> action, euid |-> euid, rc |-> rc,
                events |-> st.events, exit |-> st.exit, exc |-> st.exc,
                rows |-> st.rows]
    /\ UNCHANGED <<table, printed>>

\* sgwtool frr set ...
FrrSet ==
    \E euid \in Euids, args \in FrrArgs :
        /\ Commit(Return(FRR_set(Construct(StartRun, euid), args)), "frr", "set", euid, 0)
        /\ lastSet' = IF euid = Root
                      THEN [lastSet EXCEPT !.frr = [has |-> TRUE, args |-> args]]
                      ELSE lastSet

\* sgwtool frr get
FrrGet ==
    \E euid \in Euids :
        /\ Commit(Return(FRR_get(Construct(StartRun, euid))), "frr", "get", euid, 0)
        /\ UNCHANGED lastSet

\* sgwtool frr restart
FrrRestart ==
    \E euid \in Euids, rc \in ReturnCodes :
        /\ Commit(Return(FRR_restart(Construct(StartRun, euid), rc)),
                  "frr", "restart", euid, rc)
        /\ UNCHANGED lastSet

\* sgwtool nftables set ...
NftSet ==
    \E euid \in Euids, args \in NftArgs :
        /\ Commit(Return(NFTables_set(Construct(StartRun, euid), args)),
                  "nftables", "set", euid, 0)
        /\ lastSet' = IF euid = Root
                      THEN [lastSet EXCEPT !.nftables = [has |-> TRUE, args |-> args]]
                      ELSE lastSet

\* sgwtool nftables get
NftGet ==
    \E euid \in Euids :
        /\ Commit(Return(NFTables_get(Construct(StartRun, euid))),
                  "nftables", "get", euid, 0)
        /\ UNCHANGED lastSet

\* sgwtool nftables restart
NftRestart ==
    \E euid \in Euids, rc \in ReturnCodes :
        /\ Commit(Return(NFTables_restart(Construct(StartRun, euid), rc)),
                  "nftables", "restart", euid, rc)
        /\ UNCHANGED lastSet

\* Every filesystem the tool may be started on: each config file absent or
\* left by someone else, its parent directory present if the file is. The
\* parent of /etc/nftables.conf is /etc, which is there; /etc/frr is there
\* once FRR is installed.
Init ==
    /\ dirExists \in [Tools -> BOOLEAN]
    /\ dirExists["nftables"]
    /\ fileExists \in [Tools -> BOOLEAN]
    /\ \A t \in Tools : fileExists[t] => dirExists[t]
    /\ fileText = [t \in Tools |-> IF fileExists[t] THEN OldText ELSE << >>]
    /\ lastSet = NoArgs
    /\ last = NoRun
    /\ table = NoTable
    /\ printed = NotPrinted

Next == FrrSet \/ FrrGet \/ FrrRestart \/ NftSet \/ NftGet \/ NftRestart

Spec == Init /\ [][Next]_vars

\* The get commands on configuration files of any lines.
InitParse ==
    \E tool \in Tools :
        \E lines \in SeqsUpTo(Vocabulary(tool), 0, MaxLines) :
            /\ dirExists = [t \in Tools |-> TRUE]
            /\ fileExists = [t \in Tools |-> t = tool]
            /\ fileText = [t \in Tools |-> IF t = tool THEN TextOf(lines) ELSE << >>]
            /\ lastSet = NoArgs
            /\ last = NoRun
            /\ table = NoTable
            /\ printed = NotPrinted

NextParse == FrrGet \/ NftGet

SpecParse == InitParse /\ [][NextParse]_vars

\* __print_table__ on its own
PrintTableStep ==
    /\ ~printed.done
    /\ printed' = [done |-> TRUE, lines |-> PrintTable(table.headers, table.rows)]
    /\ UNCHANGED <<dirExists, fileExists, fileText, lastSet, last, table>>

\* The table renderer on every table of the bounds.
InitTable ==
    /\ table \in Tables
    /\ printed = NotPrinted
    /\ dirExists = [t \in Tools |-> TRUE]
    /\ fileExists = [t \in Tools |-> FALSE]
    /\ fileText = [t \in Tools |-> << >>]
    /\ lastSet = NoArgs
    /\ last = NoRun

NextTable == PrintTableStep

SpecTable == InitTable /\ [][NextTable]_vars

-----------------------------------------------------------------------------
(* What an invocation did, read off its record.                            *)

\* the positions of the events of a kind
Positions(run, kind) == {i \in 1..Len(run.events) : run.events[i].kind = kind}

\* the invocation printed an "ERROR: " message holding this text
Complained(run, what) ==
    \E i \in Positions(run, "stderr") :
        /\ StartsWith(run.events[i].text, <<"E","R","R","O","R",":"," ">>)
        /\ Contains(run.events[i].text, what)

\* the command line of the restart of a tool
RestartCommand(tool) ==
    IF tool = "frr" THEN <<"s","y","s","t","e","m","c","t","l"," ","r","e","s","t","a","r","t"," ","f","r","r">> ELSE <<"s","y","s","t","e","m","c","t","l"," ","r","e","s","t","a","r","t"," ","n","f","t","a","b","l","e","s">>

\* the confirmation of the restart of a tool
RestartConfirmation(tool) ==
    IF tool = "frr" THEN <<"F","R","R"," ","r","e","s","t","a","r","t","e","d"," ","s","u","c","c","e","s","s","f","u","l","l","y">>
    ELSE <<"n","f","t","a","b","l","e","s"," ","r","e","s","t","a","r","t","e","d"," ","s","u","c","c","e","s","s","f","u","l","l","y">>

\* the text the most recent set of a tool rendered
Rendered(sets, tool) ==
    IF tool = "frr" THEN FrrRender(sets.frr.args) ELSE NftRender(sets.nftables.args)

\* the value shown in a row of the table of a get
Shown(run, row) == run.rows[row][2]

-----------------------------------------------------------------------------
(* The claims.                                                             *)

\* C1: after nftables set, nftables get on the text written shows as its
\* Prerouting Rule the destination-NAT line, which holds both the
\* primary_sector_ip and the backplane_network given to set.
C1_FirewallRoundTrip ==
    ( /\ last.tool = "nftables" /\ last.action = "get" /\ last.euid = Root
      /\ lastSet.nftables.has
      /\ fileExists["nftables"]
      /\ fileText["nftables"] = NftRender(lastSet.nftables.args) )
    => /\ last.exit = 0
       /\ Contains(Shown(last, 1), lastSet.nftables.args.primary_sector_ip)
       /\ Contains(Shown(last, 1), lastSet.nftables.args.backplane_network)
       /\ Contains(Shown(last, 1), <<"d","n","a","t"," ","t","o">>)

\* the case of C2: frr get has run as root on the text frr set wrote
C2_Case ==
    /\ last.tool = "frr" /\ last.action = "get" /\ last.euid = Root
    /\ lastSet.frr.has
    /\ fileExists["frr"]
    /\ fileText["frr"] = FrrRender(lastSet.frr.args)

\* C2: frr get on the text frr set wrote recovers the sector addresses in
\* the same order and number, the backplane address and the gateway.
C2_RoutingRoundTrip ==
    C2_Case
    => /\ last.exit = 0
       /\ last.exc = ""
       /\ FrrParse(fileText["frr"]).sector_addresses = lastSet.frr.args.sector_addresses
       /\ Shown(last, 1) = JoinWith(<<","," ">>, lastSet.frr.args.sector_addresses)
       /\ Shown(last, 2) = lastSet.frr.args.backplane_assigned_addr
       /\ Shown(last, 3) = lastSet.frr.args.backplane_gw_ip

C2_Witness ==
    /\ C2_Case
    /\ Len(lastSet.frr.args.sector_addresses) = 2
    /\ lastSet.frr.args.sector_addresses[1] # lastSet.frr.args.sector_addresses[2]
    /\ lastSet.frr.args.backplane_assigned_addr = <<"e","t","h","0">>
    /\ last.rows # << >>

\* C3: an invocation that is not run as root ends with exit code 1 after
\* one "ERROR: " message and nothing else: no write, no directory made, no
\* external command, and the filesystem is as it was.
C3_PrivilegeGuard ==
    [][ last'.euid # Root
        => /\ last'.exit = 1
           /\ Len(last'.events) = 1
           /\ last'.events[1].kind = "stderr"
           /\ StartsWith(last'.events[1].text, <<"E","R","R","O","R",":"," ">>)
           /\ UNCHANGED fsvars ]_vars

C3_Witness ==
    /\ last.euid # Root
    /\ last.action = "set"
    /\ last.exit = 1
    /\ \E t \in Tools : ~dirExists[t]

\* C4: get and restart run as root with the config file absent end with
\* exit code 1 and an error naming the path, and neither run the external
\* command nor read the file.
C4_MissingFileGuard ==
    [][ ( /\ last'.euid = Root
          /\ last'.action \in {"get", "restart"}
          /\ ~fileExists[last'.tool] )
        => /\ last'.exit = 1
           /\ last'.exc = ""
           /\ Complained(last', Config(last'.tool))
           /\ Positions(last', "run") = {}
           /\ Positions(last', "read") = {} ]_vars

C4_Witness ==
    /\ last.euid = Root
    /\ last.action = "restart"
    /\ last.rc = 0
    /\ ~fileExists[last.tool]
    /\ last.exit = 1

C6_ParsingNeverFails ==
    ( /\ last.action = "get" /\ last.euid = Root
      /\ fileExists[last.tool] )
    => /\ last.exit = 0
       /\ last.exc = ""
       /\ last.rows # << >>
       /\ Positions(last, "stdout") # {}

\* C7: set run as root ends with exit code 0 whatever the filesystem was,
\* parent directory absent or present, and leaves the file holding the
\* rendered text.
C7_WriteNeedsNoPriorState ==
    ( last.action = "set" /\ last.euid = Root )
    => /\ last.exit = 0
       /\ last.exc = ""
       /\ fileExists[last.tool]
       /\ fileText[last.tool] = Rendered(lastSet, last.tool)

\* C8: after every invocation run as root each config file holds exactly
\* the text of the most recent set of its tool; a set writes once, to its
\* own path; get and restart change no file; no invocation changes the
\* file of the other tool.
C8_OverwriteAndIndependence ==
    [][ last'.euid = Root
        => /\ \A t \in Tools :
                lastSet'[t].has
                => fileExists'[t] /\ fileText'[t] = Rendered(lastSet', t)
           /\ last'.action = "set"
              => /\ Cardinality(Positions(last', "write")) = 1
                 /\ \A i \in Positions(last', "write") :
                        last'.events[i].text = Config(last'.tool)
           /\ last'.action \in {"get", "restart"}
              => /\ Positions(last', "write") = {}
                 /\ UNCHANGED <<fileExists, fileText>>
           /\ \A t \in Tools \ {last'.tool} :
                fileExists'[t] = fileExists[t] /\ fileText'[t] = fileText[t] ]_vars

\* what C9 says frr get shows: block is the interface block that is open,
\* captured whether the backplane address has been seen
C9_ReadLine(seen, line) ==
    LET config_line == Strip(line)
        words == Split(config_line)
    IN  IF StartsWith(config_line, <<"i","n","t","e","r","f","a","c","e">>)
        THEN [seen EXCEPT !.block =
                 IF Contains(config_line, <<"e","t","h","0">>) THEN "sector"
                 ELSE IF Contains(config_line, <<"e","t","h","1">>) THEN "backplane"
                 ELSE "other"]
        ELSE IF StartsWith(config_line, <<"i","p"," ","a","d","d","r","e","s","s">>) /\ Len(words) >= 3
        THEN IF seen.block = "sector"
             THEN [seen EXCEPT !.sector_addresses = Append(@, words[3])]
             ELSE IF seen.block = "backplane" /\ ~seen.captured
             THEN [seen EXCEPT !.backplane_addr = words[3], !.captured = TRUE]
             ELSE seen
        ELSE seen

RECURSIVE C9_Read(_, _)
C9_Read(seen, lines) ==
    IF lines = << >> THEN seen ELSE C9_Read(C9_ReadLine(seen, Head(lines)), Tail(lines))

C9_Expected(text) ==
    C9_Read([block |-> "", captured |-> FALSE,
             sector_addresses |-> << >>, backplane_addr |-> << >>],
            SplitLines(text))

\* C9: the Backplane Address frr get shows is the first address line of the
\* interface eth1 block; later address lines of that block, address lines
\* before any interface line and address lines under another interface do
\* not change it; the address lines of the interface eth0 block are the
\* Sector Gateways, in file order.
C9_BackplaneAddressCapture ==
    ( /\ last.tool = "frr" /\ last.action = "get" /\ last.euid = Root
      /\ fileExists["frr"]
      /\ last.exit = 0 )
    => /\ Shown(last, 2) = C9_Expected(fileText["frr"]).backplane_addr
       /\ Shown(last, 1) = JoinWith(<<","," ">>, C9_Expected(fileText["frr"]).sector_addresses)

RECURSIVE C10_Sum(_, _)
\* the sum of the first n widths
C10_Sum(w, n) == IF n = 0 THEN 0 ELSE w[n] + C10_Sum(w, n - 1)

\* the width of column i: the longest of its header and its cells
C10_Width(i) ==
    Greatest({Len(table.headers[i])} \cup {Len(table.rows[r][i]) : r \in 1..Len(table.rows)})

\* the characters of column i of a printed line
C10_Cell(line, i) ==
    LET w == [j \in 1..Len(table.headers) |-> C10_Width(j)]
        before == C10_Sum(w, i - 1) + 2 * (i - 1)
    IN  SubSeq(line, before + 1, before + w[i])

\* the characters between column i and column i + 1 of a printed line
C10_Gutter(line, i) ==
    LET w == [j \in 1..Len(table.headers) |-> C10_Width(j)]
        before == C10_Sum(w, i) + 2 * (i - 1)
    IN  SubSeq(line, before + 1, before + 2)

\* a printed cell holds the whole value, then spaces only
C10_Holds(cell, value) ==
    /\ Len(cell) >= Len(value)
    /\ SubSeq(cell, 1, Len(value)) = value
    /\ \A k \in (Len(value) + 1)..Len(cell) : cell[k] = " "

\* C10: __print_table__ prints the header, a separator and the rows in
\* their order; every column is as wide as the longest of its header and
\* cells; the separator cells are dashes only, of the column's width; every
\* line has the same length, the sum of the widths and two spaces between
\* columns; no value is cut.
C10_TableAlignment ==
    printed.done
    => LET n == Len(table.headers)
           w == [j \in 1..n |-> C10_Width(j)]
           lines == printed.lines
       IN  /\ Len(lines) = 2 + Len(table.rows)
           /\ \A k \in 1..Len(lines) :
                /\ Len(lines[k]) = C10_Sum(w, n) + 2 * (n - 1)
                /\ \A i \in 1..(n - 1) : C10_Gutter(lines[k], i) = Gutter
           /\ \A i \in 1..n :
                /\ C10_Holds(C10_Cell(lines[1], i), table.headers[i])
                /\ Len(C10_Cell(lines[2], i)) = w[i]
                /\ \A k \in 1..w[i] : C10_Cell(lines[2], i)[k] = "-"
                /\ \A r \in 1..Len(table.rows) :
                     C10_Holds(C10_Cell(lines[2 + r], i), table.rows[r][i])

C10_Witness ==
    /\ printed.done
    /\ Len(table.headers) = 2
    /\ Len(table.rows) = 2
    /\ Len(table.rows[1][1]) > Len(table.headers[1])
    /\ Len(table.rows[2][2]) > Len(table.rows[1][2])
    /\ Len(table.rows[1][2]) > Len(table.headers[2])

=============================================================================
